---------------------------- MODULE Spec2Model ----------------------------
(***************************************************************************)
(* A model of scripts/js/cleanDataSources.js: the recursive scanner for    *)
(* 'dataSourceObjects' folders, the marker filter, the delete step and the *)
(* .forceignore writer.  Text is modelled as sequences of one-character    *)
(* strings so that split, trim, join and includes are computed, not        *)
(* assumed.  A path is a sequence of names, a name a sequence of           *)
(* characters.                                                             *)
(***************************************************************************)
EXTENDS Integers, Sequences, FiniteSets, TLC

----------------------------------------------------------------------------
(* Configuration constants of the script.                                  *)

TARGET_FOLDER_NAME ==
  <<"d", "a", "t", "a", "S", "o", "u", "r", "c", "e", "O", "b", "j", "e", "c", "t", "s">>

CRITERIA_STRING ==
  <<"<", "o", "b", "j", "e", "c", "t", "T", "y", "p", "e", ">", "O", "b", "j", "e", "c", "t",
    "<", "/", "o", "b", "j", "e", "c", "t", "T", "y", "p", "e", ">">>

DEFAULT_DELETE_FILES == FALSE

DEFAULT_UPDATE_FORCEIGNORE == FALSE

FORCEIGNORE_FILENAME ==
  <<".", "f", "o", "r", "c", "e", "i", "g", "n", "o", "r", "e">>

SCRIPT_IGNORE_COMMENT ==
  <<"#", " ", "E", "n", "t", "r", "i", "e", "s", " ", "a", "d", "d", "e", "d", " ", "b", "y",
    " ", "c", "l", "e", "a", "n", "u", "p", "D", "a", "t", "a", "S", "o", "u", "r", "c", "e",
    "O", "b", "j", "e", "c", "t", "s", ".", "j", "s">>

IGNORE_DIRS ==
  { <<"n", "o", "d", "e", "_", "m", "o", "d", "u", "l", "e", "s">>,
    <<".", "g", "i", "t">>,
    <<".", "s", "f">>,
    <<".", "s", "f", "d", "x">>,
    <<".", "v", "s", "c", "o", "d", "e">>,
    <<".", "s", "v", "n">> }

(* The hard-wired switch of the second, flagless variant of the script.    *)
DELETE_FILES == TRUE

----------------------------------------------------------------------------
(* Text primitives of the JavaScript runtime the script relies on.         *)

(* A character is one UTF-16 code unit, written as a one-character string  *)
(* or, where a string cannot hold it, by its name "U+XXXX".                *)

(* The code units String.prototype.trim strips: the WhiteSpace and          *)
(* LineTerminator productions of ECMAScript.                               *)
WhiteSpace ==
  { "\t", "\n", "U+000B", "\f", "\r", " ", "U+00A0", "U+1680",
    "U+2000", "U+2001", "U+2002", "U+2003", "U+2004", "U+2005", "U+2006", "U+2007",
    "U+2008", "U+2009", "U+200A", "U+2028", "U+2029", "U+202F", "U+205F", "U+3000",
    "U+FEFF" }

(* Index of the first character of s at or after i that trim keeps, or     *)
(* Len(s) + 1; and of the last one at or before i, or 0.                   *)
RECURSIVE FirstKept(_, _)
FirstKept(s, i) ==
  IF i > Len(s) \/ s[i] \notin WhiteSpace THEN i ELSE FirstKept(s, i + 1)

RECURSIVE LastKept(_, _)
LastKept(s, i) ==
  IF i < 1 \/ s[i] \notin WhiteSpace THEN i ELSE LastKept(s, i - 1)

(* String.prototype.trim *)
Trim(s) == SubSeq(s, FirstKept(s, 1), LastKept(s, Len(s)))

(* String.prototype.startsWith *)
StartsWith(s, p) == Len(s) >= Len(p) /\ SubSeq(s, 1, Len(p)) = p

(* String.prototype.includes *)
Includes(s, sub) ==
  \E i \in 0..(Len(s) - Len(sub)) : SubSeq(s, i + 1, i + Len(sub)) = sub

(* String.prototype.split(/\r?\n/): every "\n" ends a piece, and one "\r"  *)
(* right before it belongs to the separator.  The text after the last      *)
(* "\n" is the last piece, so a text always yields at least one piece.     *)
(* SplitFrom yields the pieces of s from index start on.                   *)
RECURSIVE SplitFrom(_, _)
SplitFrom(s, start) ==
  IF \E j \in start..Len(s) : s[j] = "\n"
  THEN LET i == CHOOSE j \in start..Len(s) :
                  s[j] = "\n" /\ \A k \in start..(j - 1) : s[k] # "\n"
       IN  <<SubSeq(s, start, IF i > start /\ s[i - 1] = "\r" THEN i - 2 ELSE i - 1)>>
           \o SplitFrom(s, i + 1)
  ELSE <<SubSeq(s, start, Len(s))>>

SplitLines(s) == SplitFrom(s, 1)

(* Array.prototype.join *)
RECURSIVE Join(_, _)
Join(parts, sep) ==
  IF parts = <<>> THEN <<>>
  ELSE IF Len(parts) = 1 THEN parts[1]
  ELSE parts[1] \o sep \o Join(Tail(parts), sep)

(* A path is the sequence of its names from the root directory, which is   *)
(* the empty sequence.                                                     *)

(* path.join(dir, entry) of a resolved path and one name.                  *)
PathJoin(dir, entry) == Append(dir, entry)

(* The pieces of a text between the occurrences of a separator character,  *)
(* from index start on.                                                    *)
RECURSIVE PiecesFrom(_, _, _)
PiecesFrom(s, sep, start) ==
  IF \E j \in start..Len(s) : s[j] = sep
  THEN LET i == CHOOSE j \in start..Len(s) :
                  s[j] = sep /\ \A k \in start..(j - 1) : s[k] # sep
       IN  <<SubSeq(s, start, i - 1)>> \o PiecesFrom(s, sep, i + 1)
  ELSE <<SubSeq(s, start, Len(s))>>

(* The normalisation path.resolve applies: an empty piece and "." are      *)
(* dropped, ".." removes the last name (the root has none to remove).      *)
RECURSIVE Normalize(_, _)
Normalize(base, pieces) ==
  IF pieces = <<>> THEN base
  ELSE LET piece == Head(pieces)
           next ==
             IF piece = <<>> \/ piece = <<".">> THEN base
             ELSE IF piece = <<".", ".">>
                  THEN (IF base = <<>> THEN base ELSE SubSeq(base, 1, Len(base) - 1))
             ELSE Append(base, piece)
       IN  Normalize(next, Tail(pieces))

(* path.relative(root, p).split(path.sep).join('/') for p below root.      *)
RelativePath(root, p) == Join(SubSeq(p, Len(root) + 1, Len(p)), <<"/">>)

----------------------------------------------------------------------------
(* The .forceignore writer.  A file is a record: whether it exists, its    *)
(* text, and whether the environment makes reading or appending fail.      *)

(* forceignorePath = path.join(projectRootPath, FORCEIGNORE_FILENAME)       *)
ForceignorePath(projectRootPath) == PathJoin(projectRootPath, FORCEIGNORE_FILENAME)

(* originalContentLines: [] when the file is absent, else the split text.  *)
OriginalContentLines(file) ==
  IF file.exists THEN SplitLines(file.content) ELSE <<>>

(* existingEntries: the trimmed lines that are neither blank nor comments. *)
ExistingEntries(lines) ==
  { Trim(lines[i]) : i \in { j \in 1..Len(lines) :
        Trim(lines[j]) # <<>> /\ ~StartsWith(Trim(lines[j]), <<"#">>) } }

(* Variant of NewRelativePaths that forgets existingEntries.add: a path    *)
(* named twice in one batch is accepted twice.                             *)
RECURSIVE NewRelativePathsNoAdd(_, _, _)
NewRelativePathsNoAdd(root, paths, existing) ==
  IF paths = <<>> THEN <<>>
  ELSE LET relativePath == RelativePath(root, Head(paths))
       IN  IF relativePath \notin existing
           THEN <<relativePath>> \o NewRelativePathsNoAdd(root, Tail(paths), existing)
           ELSE NewRelativePathsNoAdd(root, Tail(paths), existing)

(* newRelativePaths: the loop over the batch; the set grows as it accepts. *)
RECURSIVE NewRelativePaths(_, _, _)
NewRelativePaths(root, paths, existing) ==
  IF paths = <<>> THEN <<>>
  ELSE LET relativePath == RelativePath(root, Head(paths))
       IN  IF relativePath \notin existing
           THEN <<relativePath>>
                \o NewRelativePaths(root, Tail(paths), existing \cup {relativePath})
           ELSE NewRelativePaths(root, Tail(paths), existing)

HeaderExists(lines) ==
  \E i \in 1..Len(lines) : Trim(lines[i]) = SCRIPT_IGNORE_COMMENT

(* Variant of ContentToAppend that writes the header without looking for   *)
(* one in the file.                                                        *)
ContentToAppendHeaderAlways(lines, newRelativePaths) ==
  LET lastTrim == IF Len(lines) > 0 THEN Trim(lines[Len(lines)]) ELSE <<>>
  IN  (IF Len(lines) > 0 /\ lastTrim # <<>> THEN <<"\n">> ELSE <<>>)
      \o (IF \E i \in 1..Len(lines) : Trim(lines[i]) # <<>> THEN <<"\n">> ELSE <<>>)
      \o SCRIPT_IGNORE_COMMENT \o <<"\n">>
      \o Join(newRelativePaths, <<"\n">>) \o <<"\n">>

(* contentToAppend, built as the code builds it.                           *)
ContentToAppend(lines, newRelativePaths) ==
  LET headerExists == HeaderExists(lines)
      lastTrim     == IF Len(lines) > 0 THEN Trim(lines[Len(lines)]) ELSE <<>>
      sep1 == IF Len(lines) > 0 /\ lastTrim # <<>>
                 /\ (~headerExists \/ lastTrim # SCRIPT_IGNORE_COMMENT)
              THEN <<"\n">> ELSE <<>>
      sep2 == IF ~headerExists
              THEN (IF \E i \in 1..Len(lines) : Trim(lines[i]) # <<>>
                    THEN <<"\n">> ELSE <<>>) \o SCRIPT_IGNORE_COMMENT \o <<"\n">>
              ELSE IF sep1 = <<>> /\ Len(lines) > 0 /\ lastTrim # <<>>
                   THEN <<"\n">> ELSE <<>>
  IN  sep1 \o sep2 \o Join(newRelativePaths, <<"\n">>) \o <<"\n">>

(* Variant of UpdateNewPaths whose catch of the read error does not        *)
(* return: the call goes on with no existing entries.                      *)
UpdateNewPathsAfterReadError(file, root, paths) ==
  IF file.exists /\ file.readErr THEN NewRelativePaths(root, paths, {})
  ELSE NewRelativePaths(root, paths, ExistingEntries(OriginalContentLines(file)))

(* The paths one call finds new, or none when the existing file cannot be  *)
(* read (the early return).                                                *)
UpdateNewPaths(file, root, paths) ==
  IF file.exists /\ file.readErr THEN <<>>
  ELSE NewRelativePaths(root, paths, ExistingEntries(OriginalContentLines(file)))

(* fs.appendFileSync: creates the file when absent.                        *)
AppendFile(file, text) ==
  [file EXCEPT !.exists = TRUE,
               !.content = (IF file.exists THEN file.content ELSE <<>>) \o text]

(* Variant of updateForceignoreFile without the length guard: it appends   *)
(* its block also when no path is new.                                     *)
updateForceignoreFileUnguarded(file, root, paths) ==
  IF (file.exists /\ file.readErr) \/ file.appendErr THEN file
  ELSE AppendFile(file, ContentToAppend(OriginalContentLines(file),
                                        UpdateNewPaths(file, root, paths)))

(* updateForceignoreFile: the file it leaves behind.                       *)
updateForceignoreFile(file, root, paths) ==
  LET newRelativePaths == UpdateNewPaths(file, root, paths)
  IN  IF Len(newRelativePaths) > 0 /\ ~file.appendErr
      THEN AppendFile(file,
             ContentToAppend(OriginalContentLines(file), newRelativePaths))
      ELSE file

----------------------------------------------------------------------------
(* The file system.  A tree maps each existing absolute path to its node:  *)
(* kind "dir" or "file", and a file's text.  A fault <<kind, path>> makes  *)
(* one system call on one path throw: "stat" (fs.statSync), "read"         *)
(* (fs.readdirSync of a directory, fs.readFileSync of a file) or "unlink"  *)
(* (fs.unlinkSync).                                                        *)

(* The value of a code unit, charCodeAt(0).  The printable ASCII           *)
(* characters, from 32 to 126, are listed in order; tab, LF, FF and CR are *)
(* the control characters a string can hold; every other code unit goes by *)
(* its name "U+XXXX", four upper-case hexadecimal digits.                  *)
PrintableAscii ==
  << " ", "!", "\"", "#", "$", "%", "&", "'", "(", ")", "*", "+", ",", "-", ".", "/",
     "0", "1", "2", "3", "4", "5", "6", "7", "8", "9", ":", ";", "<", "=", ">", "?",
     "@", "A", "B", "C", "D", "E", "F", "G", "H", "I", "J", "K", "L", "M", "N", "O",
     "P", "Q", "R", "S", "T", "U", "V", "W", "X", "Y", "Z", "[", "\\", "]", "^", "_",
     "U+0060", "a", "b", "c", "d", "e", "f", "g", "h", "i", "j", "k", "l", "m", "n", "o",
     "p", "q", "r", "s", "t", "u", "v", "w", "x", "y", "z", "{", "|", "}", "~" >>

AsciiUnit ==
  [c \in { PrintableAscii[i] : i \in 1..Len(PrintableAscii) } |->
     31 + (CHOOSE i \in 1..Len(PrintableAscii) : PrintableAscii[i] = c)]

HexDigits ==
  <<"0", "1", "2", "3", "4", "5", "6", "7", "8", "9", "A", "B", "C", "D", "E", "F">>

(* The name of the code unit of value n.                                   *)
UnitName(n) ==
  "U+" \o HexDigits[(n \div 4096) + 1] \o HexDigits[((n \div 256) % 16) + 1]
       \o HexDigits[((n \div 16) % 16) + 1] \o HexDigits[(n % 16) + 1]

(* The names of the code units, in pages of 256 and in rows of 16, and    *)
(* the value of the code unit of a name, found by page, row and place.     *)
UnitNames == [hi \in 0..255 |-> { UnitName(256 * hi + lo) : lo \in 0..255 }]

UnitRows == [row \in 0..4095 |-> { UnitName(16 * row + lo) : lo \in 0..15 }]

NamedUnit(c) ==
  LET hi  == CHOOSE k \in 0..255 : c \in UnitNames[k]
      row == CHOOSE r \in (16 * hi)..(16 * hi + 15) : c \in UnitRows[r]
  IN  CHOOSE n \in (16 * row)..(16 * row + 15) : UnitName(n) = c

CodeUnit(c) ==
  IF c \in DOMAIN AsciiUnit THEN AsciiUnit[c]
  ELSE IF c = "\t" THEN 9
  ELSE IF c = "\n" THEN 10
  ELSE IF c = "\f" THEN 12
  ELSE IF c = "\r" THEN 13
  ELSE NamedUnit(c)

(* The place of a code unit in the order of the listing, which is the      *)
(* order of the code points (of the UTF-8 bytes of the names): the two     *)
(* halves of a surrogate pair, U+D800 to U+DFFF, stand for a code point    *)
(* above U+FFFF and come after every other code unit.                      *)
ListingRank(c) ==
  LET u == CodeUnit(c)
  IN  IF u >= 55296 /\ u <= 57343 THEN u + 10240 ELSE u

(* Whether name a sorts before name b, code unit by code unit.             *)
RECURSIVE BeforeFrom(_, _, _)
BeforeFrom(a, b, i) ==
  IF i > Len(a) THEN i <= Len(b)
  ELSE IF i > Len(b) THEN FALSE
  ELSE IF a[i] = b[i] THEN BeforeFrom(a, b, i + 1)
  ELSE ListingRank(a[i]) < ListingRank(b[i])

NameBefore(a, b) == BeforeFrom(a, b, 1)

(* The names of a set, sorted.                                             *)
RECURSIVE SortedNames(_)
SortedNames(names) ==
  IF names = {} THEN <<>>
  ELSE LET first == CHOOSE x \in names : \A y \in names : ~NameBefore(y, x)
       IN  <<first>> \o SortedNames(names \ {first})

(* fs.readdirSync(dir): the names of all the children of dir, in the order *)
(* of their code points.                                                   *)
ReadDir(tree, dir) ==
  SortedNames({ p[Len(p)] : p \in { q \in DOMAIN tree :
                  Len(q) = Len(dir) + 1 /\ SubSeq(q, 1, Len(dir)) = dir } })

(* Whether fs.readdirSync(dir) throws: no such directory, or a fault.      *)
ReadDirThrows(tree, flt, dir) ==
  \/ dir \notin DOMAIN tree
  \/ tree[dir].kind # "dir"
  \/ <<"read", dir>> \in flt

(* Whether fs.statSync(p) throws.                                          *)
StatThrows(tree, flt, p) == p \notin DOMAIN tree \/ <<"stat", p>> \in flt

(* findTargetFoldersRecursive: the loop over the entries of currentPath,   *)
(* and the function itself.                                                *)
RECURSIVE ScanEntries(_, _, _, _, _)
RECURSIVE findTargetFoldersRecursive(_, _, _, _)

(* Variant of ScanEntries without the IGNORE_DIRS test: it recurses into   *)
(* every directory.                                                        *)
RECURSIVE ScanEntriesNoIgnore(_, _, _, _, _)
ScanEntriesNoIgnore(tree, flt, currentPath, entries, targetName) ==
  IF entries = <<>> THEN <<>>
  ELSE LET entry     == Head(entries)
           entryPath == PathJoin(currentPath, entry)
           found ==
             IF StatThrows(tree, flt, entryPath) THEN <<>>
             ELSE IF tree[entryPath].kind = "dir"
                  THEN (IF entry = targetName THEN <<entryPath>> ELSE <<>>)
                       \o findTargetFoldersRecursive(tree, flt, entryPath, targetName)
                  ELSE <<>>
       IN  found \o ScanEntriesNoIgnore(tree, flt, currentPath, Tail(entries), targetName)

(* Variant of ScanEntries with the stat inside the outer try only: a stat  *)
(* that throws ends the loop over the remaining entries.                   *)
RECURSIVE ScanEntriesStopAtError(_, _, _, _, _)
ScanEntriesStopAtError(tree, flt, currentPath, entries, targetName) ==
  IF entries = <<>> THEN <<>>
  ELSE LET entry     == Head(entries)
           entryPath == PathJoin(currentPath, entry)
       IN  IF StatThrows(tree, flt, entryPath) THEN <<>>
           ELSE (IF tree[entryPath].kind = "dir"
                 THEN (IF entry = targetName THEN <<entryPath>> ELSE <<>>)
                      \o (IF entry \notin IGNORE_DIRS
                          THEN findTargetFoldersRecursive(tree, flt, entryPath, targetName)
                          ELSE <<>>)
                 ELSE <<>>)
                \o ScanEntriesStopAtError(tree, flt, currentPath, Tail(entries), targetName)

ScanEntries(tree, flt, currentPath, entries, targetName) ==
  IF entries = <<>> THEN <<>>
  ELSE LET entry     == Head(entries)
           entryPath == PathJoin(currentPath, entry)
           found ==
             IF StatThrows(tree, flt, entryPath) THEN <<>>
             ELSE IF tree[entryPath].kind = "dir"
                  THEN (IF entry = targetName THEN <<entryPath>> ELSE <<>>)
                       \o (IF entry \notin IGNORE_DIRS
                           THEN findTargetFoldersRecursive(tree, flt, entryPath, targetName)
                           ELSE <<>>)
                  ELSE <<>>
       IN  found \o ScanEntries(tree, flt, currentPath, Tail(entries), targetName)

findTargetFoldersRecursive(tree, flt, currentPath, targetName) ==
  IF ReadDirThrows(tree, flt, currentPath) THEN <<>>
  ELSE ScanEntries(tree, flt, currentPath, ReadDir(tree, currentPath), targetName)

(* Variant of FileMeetsCriteria without the marker test: every readable    *)
(* regular file is pushed.                                                 *)
FileMeetsCriteriaAnyText(tree, flt, filePath, criteria) ==
  /\ ~StatThrows(tree, flt, filePath)
  /\ tree[filePath].kind = "file"
  /\ <<"read", filePath>> \notin flt

(* Whether the body of the per-file try block of identifyFilesForAction    *)
(* pushes filePath: stat and read succeed, a regular file, marker absent.  *)
FileMeetsCriteria(tree, flt, filePath, criteria) ==
  /\ ~StatThrows(tree, flt, filePath)
  /\ tree[filePath].kind = "file"
  /\ <<"read", filePath>> \notin flt
  /\ ~Includes(tree[filePath].content, criteria)

(* Variant of IdentifyEntries that descends into the subdirectories of the *)
(* folder instead of skipping them.                                        *)
RECURSIVE IdentifyEntriesDeep(_, _, _, _, _)
IdentifyEntriesDeep(tree, flt, folderPath, entries, criteria) ==
  IF entries = <<>> THEN <<>>
  ELSE LET filePath == PathJoin(folderPath, Head(entries))
       IN  (IF FileMeetsCriteria(tree, flt, filePath, criteria)
            THEN <<filePath>>
            ELSE IF ~StatThrows(tree, flt, filePath) /\ tree[filePath].kind = "dir"
                 THEN IdentifyEntriesDeep(tree, flt, filePath, ReadDir(tree, filePath),
                                          criteria)
                 ELSE <<>>)
           \o IdentifyEntriesDeep(tree, flt, folderPath, Tail(entries), criteria)

(* Variant of IdentifyEntries with one try around the whole loop: a stat   *)
(* or read that throws ends the loop over the remaining entries.           *)
RECURSIVE IdentifyEntriesStopAtError(_, _, _, _, _)
IdentifyEntriesStopAtError(tree, flt, folderPath, entries, criteria) ==
  IF entries = <<>> THEN <<>>
  ELSE LET filePath == PathJoin(folderPath, Head(entries))
       IN  IF \/ StatThrows(tree, flt, filePath)
              \/ (tree[filePath].kind = "file" /\ <<"read", filePath>> \in flt)
           THEN <<>>
           ELSE (IF FileMeetsCriteria(tree, flt, filePath, criteria)
                 THEN <<filePath>> ELSE <<>>)
                \o IdentifyEntriesStopAtError(tree, flt, folderPath, Tail(entries),
                                              criteria)

(* identifyFilesForAction: the loop over the entries, and the function.    *)
RECURSIVE IdentifyEntries(_, _, _, _, _)
IdentifyEntries(tree, flt, folderPath, entries, criteria) ==
  IF entries = <<>> THEN <<>>
  ELSE LET filePath == PathJoin(folderPath, Head(entries))
       IN  (IF FileMeetsCriteria(tree, flt, filePath, criteria)
            THEN <<filePath>> ELSE <<>>)
           \o IdentifyEntries(tree, flt, folderPath, Tail(entries), criteria)

identifyFilesForAction(tree, flt, folderPath, criteria) ==
  IF ReadDirThrows(tree, flt, folderPath) THEN <<>>
  ELSE IdentifyEntries(tree, flt, folderPath, ReadDir(tree, folderPath), criteria)

(* fs.unlinkSync(p): the tree it leaves; a fault leaves the file in place. *)
Unlink(tree, flt, p) ==
  IF p \in DOMAIN tree /\ <<"unlink", p>> \notin flt
  THEN [q \in DOMAIN tree \ {p} |-> tree[q]]
  ELSE tree

(* processFilesLookigForAbsence of the flagless variant: the tree it       *)
(* leaves, every file lacking the marker unlinked when DELETE_FILES.       *)
RECURSIVE ProcessEntries(_, _, _, _, _)
ProcessEntries(tree, flt, folderPath, entries, criteria) ==
  IF entries = <<>> THEN tree
  ELSE LET filePath == PathJoin(folderPath, Head(entries))
           after == IF FileMeetsCriteria(tree, flt, filePath, criteria) /\ DELETE_FILES
                    THEN Unlink(tree, flt, filePath) ELSE tree
       IN  ProcessEntries(after, flt, folderPath, Tail(entries), criteria)

processFilesLookigForAbsence(tree, flt, folderPath, criteria) ==
  IF ReadDirThrows(tree, flt, folderPath) THEN tree
  ELSE ProcessEntries(tree, flt, folderPath, ReadDir(tree, folderPath), criteria)

----------------------------------------------------------------------------
(* Command line.  An argument is a text; process.argv.slice(2) is a        *)
(* sequence of them.                                                       *)

ARG_DELETE == <<"-", "-", "d", "e", "l", "e", "t", "e">>

ARG_UPDATE == <<"-", "-", "u", "p", "d", "a", "t", "e", "-", "f", "o", "r", "c", "e", "i", "g", "n", "o", "r", "e">>

ARG_NO_DELETE == <<"-", "-", "n", "o", "-", "d", "e", "l", "e", "t", "e">>

ARG_NO_UPDATE == <<"-", "-", "n", "o", "-", "u", "p", "d", "a", "t", "e", "-", "f", "o", "r", "c", "e", "i", "g", "n", "o", "r", "e">>

(* The argument loop of main: the settings after the whole sequence.       *)
RECURSIVE ParseArgs(_, _)

(* Variant of ParseArgs without the branches of the negations: they fall   *)
(* through to the unknown options.                                         *)
RECURSIVE ParseArgsNoNegation(_, _)
ParseArgsNoNegation(cliArgs, acc) ==
  IF cliArgs = <<>> THEN acc
  ELSE LET arg == Head(cliArgs)
           next ==
             IF arg = ARG_DELETE THEN [acc EXCEPT !.deleteFiles = TRUE]
             ELSE IF arg = ARG_UPDATE THEN [acc EXCEPT !.updateForceignore = TRUE]
             ELSE IF ~StartsWith(arg, <<"-", "-">>)
                  THEN [acc EXCEPT !.remainingArgsForPath = Append(@, arg)]
             ELSE acc
       IN  ParseArgsNoNegation(Tail(cliArgs), next)

ParseArgs(cliArgs, acc) ==
  IF cliArgs = <<>> THEN acc
  ELSE LET arg == Head(cliArgs)
           next ==
             IF arg = ARG_DELETE THEN [acc EXCEPT !.deleteFiles = TRUE]
             ELSE IF arg = ARG_UPDATE THEN [acc EXCEPT !.updateForceignore = TRUE]
             ELSE IF arg = ARG_NO_DELETE THEN [acc EXCEPT !.deleteFiles = FALSE]
             ELSE IF arg = ARG_NO_UPDATE THEN [acc EXCEPT !.updateForceignore = FALSE]
             ELSE IF ~StartsWith(arg, <<"-", "-">>)
                  THEN [acc EXCEPT !.remainingArgsForPath = Append(@, arg)]
             ELSE acc
       IN  ParseArgs(Tail(cliArgs), next)

ParsedArgs(cliArgs) ==
  ParseArgs(cliArgs, [deleteFiles |-> DEFAULT_DELETE_FILES,
                      updateForceignore |-> DEFAULT_UPDATE_FORCEIGNORE,
                      remainingArgsForPath |-> <<>>])

(* process.cwd(), and path.resolve(arg) on a POSIX system: an argument     *)
(* starting with "/" is taken from the root, any other from the current    *)
(* directory, and the result is normalised.                                *)
CWD == << <<"w">> >>

Resolve(arg) ==
  Normalize(IF arg # <<>> /\ arg[1] = "/" THEN <<>> ELSE CWD, PiecesFrom(arg, "/", 1))

(* searchStartPath of main: pathArgument is the first non-flag argument;   *)
(* null and the empty string are both falsy.                               *)
SearchStartPath(cliArgs) ==
  LET rest == ParsedArgs(cliArgs).remainingArgsForPath
  IN  IF rest # <<>> /\ rest[1] # <<>> THEN Resolve(rest[1]) ELSE CWD

(* searchStartPath of the flagless variant: process.argv[2], as it is.     *)
SearchStartPath2(cliArgs) ==
  IF cliArgs # <<>> /\ cliArgs[1] # <<>> THEN Resolve(cliArgs[1]) ELSE CWD

(* The root test of main: process.exit(1) unless the path exists and is a  *)
(* directory (a stat that throws is caught and exits with 1 as well).      *)
RootIsDirectory(tree, flt, root) ==
  ~StatThrows(tree, flt, root) /\ tree[root].kind = "dir"

----------------------------------------------------------------------------
(* Bounds of the model.                                                    *)

(* Faults injected into one tree.                                          *)
MaxFaults == 1

(* Runs of the script in a row on the same tree.                           *)
MaxRuns == 2

(* Calls of updateForceignoreFile in a row on the same file.               *)
MaxCalls == 2

(* Paths in one batch handed to updateForceignoreFile.                     *)
MaxBatch == 2

(* Arguments on one command line.                                          *)
MaxArgs == 3

----------------------------------------------------------------------------
(* Inputs: the trees, faults, command lines and ignore files explored.     *)

T == TARGET_FOLDER_NAME

NODE_MODULES == <<"n", "o", "d", "e", "_", "m", "o", "d", "u", "l", "e", "s">>

DOT_GIT == <<".", "g", "i", "t">>

ARG_PROJ == <<"p", "r", "o", "j">>

ARG_UNKNOWN == <<"-", "-", "v", "e", "r", "b", "o", "s", "e">>

(* Other spellings of directories of the tree: the current directory, its  *)
(* parent, the project with a trailing slash, a directory below it, and    *)
(* the project by its absolute path.                                       *)
ARG_DOT == <<".">>

ARG_DOTDOT == <<".", ".">>

ARG_PROJ_SLASH == ARG_PROJ \o <<"/">>

ARG_PROJ_A == ARG_PROJ \o <<"/", "a">>

ARG_ABS_PROJ == <<"/", "w", "/">> \o ARG_PROJ

PROJ == Resolve(ARG_PROJ)

(* File texts: with the marker, without it, with it in another case (the   *)
(* test is case-sensitive), and empty.                                     *)
WithMarker == <<"<", "a", ">">> \o CRITERIA_STRING \o <<"\n">>

NoMarker == <<"<", "a", ">", "\n">>

LowerMarker ==
  <<"<", "a", ">", "<", "o", "b", "j", "e", "c", "t", "t", "y", "p", "e", ">", "o", "b", "j", "e", "c", "t", "<", "/", "o", "b", "j", "e", "c", "t", "t", "y", "p", "e", ">">>

Dir(p) == [path |-> p, kind |-> "dir", content |-> <<>>]

File(p, c) == [path |-> p, kind |-> "file", content |-> c]

(* The project: targets at depth 1, 2 and nested in a target; a plain      *)
(* subdirectory of a target; targets below ignored names at depth 1, 2     *)
(* and 3; files outside every target, two of them with a name that is one *)
(* code unit outside printable ASCII (U+0001, listed first, and U+00E9,    *)
(* listed last).  The first target holds x (marker), y (varying) and,      *)
(* listed after them, z (no marker).                                       *)
Nodes(yContent) ==
  { Dir(<<>>),
    Dir(CWD),
    File(CWD \o << <<"f">> >>, NoMarker),
    File(CWD \o << <<"U+00E9">> >>, NoMarker),
    Dir(PROJ),
    File(PROJ \o << <<"z">> >>, NoMarker),
    File(PROJ \o << <<"U+0001">> >>, NoMarker),
    Dir(PROJ \o <<T>>),
    File(PROJ \o <<T, <<"x">>>>, WithMarker),
    File(PROJ \o <<T, <<"y">>>>, yContent),
    File(PROJ \o <<T, <<"z">>>>, NoMarker),
    Dir(PROJ \o <<T, T>>),
    File(PROJ \o <<T, T, <<"z">>>>, <<>>),
    Dir(PROJ \o <<T, <<"a">>>>),
    File(PROJ \o <<T, <<"a">>, <<"y">>>>, NoMarker),
    Dir(PROJ \o << <<"a">> >>),
    Dir(PROJ \o << <<"a">>, T>>),
    File(PROJ \o << <<"a">>, T, <<"y">>>>, NoMarker),
    Dir(PROJ \o << <<"a">>, DOT_GIT>>),
    Dir(PROJ \o << <<"a">>, DOT_GIT, T>>),
    File(PROJ \o << <<"a">>, DOT_GIT, T, <<"y">>>>, NoMarker),
    Dir(PROJ \o <<NODE_MODULES>>),
    Dir(PROJ \o <<NODE_MODULES, T>>),
    File(PROJ \o <<NODE_MODULES, T, <<"y">>>>, NoMarker),
    Dir(PROJ \o <<NODE_MODULES, <<"a">>>>),
    Dir(PROJ \o <<NODE_MODULES, <<"a">>, T>>),
    File(PROJ \o <<NODE_MODULES, <<"a">>, T, <<"y">>>>, NoMarker) }

TreeOf(nodes) ==
  [p \in {n.path : n \in nodes} |->
     LET n == CHOOSE m \in nodes : m.path = p
     IN  [kind |-> n.kind, content |-> n.content]]

Trees == { TreeOf(Nodes(c)) : c \in {NoMarker, WithMarker, LowerMarker} }

FaultChoices ==
  { <<"read", PROJ>>,
    <<"stat", PROJ \o << <<"a">> >> >>,
    <<"read", PROJ \o << <<"a">> >> >>,
    <<"stat", PROJ \o <<T>> >>,
    <<"read", PROJ \o <<T>> >>,
    <<"stat", PROJ \o <<T, T>> >>,
    <<"stat", PROJ \o <<T, <<"y">>>> >>,
    <<"read", PROJ \o <<T, <<"y">>>> >>,
    <<"unlink", PROJ \o <<T, <<"y">>>> >>,
    <<"unlink", PROJ \o << <<"a">>, T, <<"y">>>> >> }

FaultSets == { F \in SUBSET FaultChoices : Cardinality(F) <= MaxFaults }

(* Command lines: every pair of settings, a later flag overriding an       *)
(* earlier one, an unknown option, no path, a path that is a file, a path  *)
(* that does not exist, the parent of the current directory and a          *)
(* directory two levels down.                                              *)
ArgChoices ==
  { <<>>,
    <<ARG_PROJ>>,
    <<ARG_DELETE, ARG_PROJ>>,
    <<ARG_PROJ, ARG_UPDATE>>,
    <<ARG_DELETE, ARG_UPDATE, ARG_PROJ>>,
    <<ARG_DELETE, ARG_NO_DELETE, ARG_UNKNOWN, ARG_PROJ>>,
    <<ARG_DELETE, ARG_UPDATE>>,
    << <<"f">> >>,
    << <<"z">>, ARG_DELETE >>,
    <<ARG_DOTDOT, ARG_DELETE, ARG_UPDATE>>,
    <<ARG_DELETE, ARG_UPDATE, ARG_PROJ_A>> }

(* Command lines of the flagless variant, which reads only argv[2], and of *)
(* the file as it is, which reads none.                                    *)
ArgChoices2 == { <<>>, <<ARG_PROJ>>, << <<"f">> >>, <<ARG_DELETE, ARG_PROJ>> }

NoFile == [exists |-> FALSE, content |-> <<>>, readErr |-> FALSE, appendErr |-> FALSE]

TextFile(c) == [exists |-> TRUE, content |-> c, readErr |-> FALSE, appendErr |-> FALSE]

(* The relative paths main can produce below PROJ for the files named y.   *)
REL_T_Y == RelativePath(PROJ, PROJ \o <<T, <<"y">>>>)

REL_A_T_Y == RelativePath(PROJ, PROJ \o << <<"a">>, T, <<"y">>>>)

(* Ignore files a run of main starts from.                                 *)
MainIgnoreFiles ==
  { NoFile,
    TextFile(<<"*", ".", "l", "o", "g">>),
    TextFile(SCRIPT_IGNORE_COMMENT \o <<"\n">> \o REL_T_Y \o <<"\r", "\n">>),
    [TextFile(REL_A_T_Y \o <<"\n">>) EXCEPT !.readErr = TRUE],
    [NoFile EXCEPT !.appendErr = TRUE] }

----------------------------------------------------------------------------
(* State.                                                                  *)

VARIABLES
  variant,        \* "whole": cleanDataSources.js, the file as it is;
                  \* "flags": its lines 1-294 as a file of their own, the
                  \*          script with --delete/--update-forceignore;
                  \* "fixed": its lines 295-444 as a file of their own, the
                  \*          flagless script with DELETE_FILES
  cliArgs,        \* process.argv.slice(2)
  tree,           \* the file system
  faults,         \* the system calls that throw
  ignoreFile,     \* the file at each .forceignore path
  pc,             \* position of main
  effectiveDeleteFiles,
  effectiveUpdateForceignore,
  searchStartPath,
  targetFolders,
  folderIdx,      \* index of the folder the forEach is at
  filesInFolder,
  fileIdx,        \* index of the file the inner forEach is at
  allFilesIdentifiedForAction,
  exitCode,       \* -1 while running, else the exit status
  runs,           \* runs started so far
  tree0,          \* the file system when the current run started
  ignore0,        \* the ignore files when the current run started
  log,            \* file-system calls of the current run, in order
  calls,          \* calls of updateForceignoreFile so far
  lastRoot,       \* arguments of the latest call
  lastBatch,
  prevFile,       \* the ignore file right before the latest call
  repeat          \* the latest call repeated the batch of the one before

runVars ==
  <<effectiveDeleteFiles, effectiveUpdateForceignore, searchStartPath, targetFolders,
    folderIdx, filesInFolder, fileIdx, allFilesIdentifiedForAction, exitCode>>

callVars == <<calls, lastRoot, lastBatch, prevFile, repeat>>

vars ==
  <<variant, cliArgs, tree, faults, ignoreFile, pc, runVars, runs, tree0, ignore0, log,
    callVars>>

(* The .forceignore paths of the roots a run can search from: the         *)
(* directories of the tree a command line of the model can name.           *)
IgnorePaths ==
  { ForceignorePath(r) : r \in {<<>>, CWD, PROJ, PROJ \o << <<"a">> >>} }

(* The values of the locals of main before main has set them.              *)
RunStart ==
  /\ effectiveDeleteFiles = DEFAULT_DELETE_FILES
  /\ effectiveUpdateForceignore = DEFAULT_UPDATE_FORCEIGNORE
  /\ searchStartPath = <<>>
  /\ targetFolders = <<>>
  /\ folderIdx = 1
  /\ filesInFolder = <<>>
  /\ fileIdx = 1
  /\ allFilesIdentifiedForAction = <<>>
  /\ exitCode = -1

NoCallYet ==
  /\ calls = 0
  /\ lastRoot = <<>>
  /\ lastBatch = <<>>
  /\ prevFile = NoFile
  /\ repeat = FALSE

Init ==
  /\ \/ variant = "whole" /\ cliArgs \in ArgChoices2
     \/ variant = "flags" /\ cliArgs \in ArgChoices
     \/ variant = "fixed" /\ cliArgs \in ArgChoices2
  /\ tree \in Trees
  /\ faults \in FaultSets
  /\ \E f \in MainIgnoreFiles :
       ignoreFile = [q \in IgnorePaths |-> IF q = ForceignorePath(PROJ) THEN f ELSE NoFile]
  /\ pc = "parse"
  /\ RunStart
  /\ runs = 1
  /\ tree0 = tree
  /\ ignore0 = ignoreFile
  /\ log = <<>>
  /\ NoCallYet

----------------------------------------------------------------------------
(* The file as it is.  It holds the two scripts one after the other, and   *)
(* the second declares fs again with const: node rejects the file when it  *)
(* compiles it (SyntaxError: Identifier 'fs' has already been declared),   *)
(* before the first statement runs.  The process ends with status 1; no    *)
(* function is defined, no main is called, nothing is read or written.     *)
LoadStep ==
  /\ pc = "parse"
  /\ variant = "whole"
  /\ pc' = "done"
  /\ exitCode' = 1
  /\ UNCHANGED <<variant, cliArgs, tree, faults, ignoreFile, effectiveDeleteFiles,
                 effectiveUpdateForceignore, searchStartPath, targetFolders, folderIdx,
                 filesInFolder, fileIdx, allFilesIdentifiedForAction, runs, tree0,
                 ignore0, log, callVars>>

----------------------------------------------------------------------------
(* main of the script with flags, step by step.                            *)

(* The argument loop and the choice of the search root.                    *)
ParseStep ==
  /\ pc = "parse"
  /\ variant = "flags"
  /\ effectiveDeleteFiles' = ParsedArgs(cliArgs).deleteFiles
  /\ effectiveUpdateForceignore' = ParsedArgs(cliArgs).updateForceignore
  /\ searchStartPath' = SearchStartPath(cliArgs)
  /\ pc' = "root"
  /\ UNCHANGED <<variant, cliArgs, tree, faults, ignoreFile, targetFolders, folderIdx,
                 filesInFolder, fileIdx, allFilesIdentifiedForAction, exitCode, runs,
                 tree0, ignore0, log, callVars>>

(* The start of main of the flagless variant: DELETE_FILES is the setting, *)
(* there is no ignore-file update, argv[2] is the path.                    *)
ParseStep2 ==
  /\ pc = "parse"
  /\ variant = "fixed"
  /\ effectiveDeleteFiles' = DELETE_FILES
  /\ effectiveUpdateForceignore' = FALSE
  /\ searchStartPath' = SearchStartPath2(cliArgs)
  /\ pc' = "root"
  /\ UNCHANGED <<variant, cliArgs, tree, faults, ignoreFile, targetFolders, folderIdx,
                 filesInFolder, fileIdx, allFilesIdentifiedForAction, exitCode, runs,
                 tree0, ignore0, log, callVars>>

(* The root test: process.exit(1), or go on to the scan.                   *)
RootStep ==
  /\ pc = "root"
  /\ IF RootIsDirectory(tree, faults, searchStartPath)
     THEN pc' = "scan" /\ exitCode' = exitCode
     ELSE pc' = "done" /\ exitCode' = 1
  /\ UNCHANGED <<variant, cliArgs, tree, faults, ignoreFile, effectiveDeleteFiles,
                 effectiveUpdateForceignore, searchStartPath, targetFolders, folderIdx,
                 filesInFolder, fileIdx, allFilesIdentifiedForAction, runs, tree0,
                 ignore0, log, callVars>>

(* The scan, and the return when it finds nothing.                         *)
ScanStep ==
  /\ pc = "scan"
  /\ LET found == findTargetFoldersRecursive(tree, faults, searchStartPath,
                                              TARGET_FOLDER_NAME)
     IN  /\ targetFolders' = found
         /\ IF Len(found) = 0
            THEN pc' = "done" /\ exitCode' = 0
            ELSE /\ pc' = (IF variant = "flags" THEN "identify" ELSE "process")
                 /\ exitCode' = exitCode
  /\ log' = Append(log, <<"scan">>)
  /\ UNCHANGED <<variant, cliArgs, tree, faults, ignoreFile, effectiveDeleteFiles,
                 effectiveUpdateForceignore, searchStartPath, folderIdx, filesInFolder,
                 fileIdx, allFilesIdentifiedForAction, runs, tree0, ignore0, callVars>>

(* One round of targetFolders.forEach up to the inner forEach: the filter, *)
(* and the else branch when it returns nothing.                            *)
IdentifyStep ==
  /\ pc = "identify"
  /\ LET found == identifyFilesForAction(tree, faults, targetFolders[folderIdx],
                                         CRITERIA_STRING)
     IN  /\ log' = Append(log, <<"identify", targetFolders[folderIdx]>>)
         /\ IF found # <<>>
            THEN /\ filesInFolder' = found
                 /\ fileIdx' = 1
                 /\ pc' = "act"
                 /\ folderIdx' = folderIdx
            ELSE /\ filesInFolder' = <<>>
                 /\ fileIdx' = 1
                 /\ folderIdx' = folderIdx + 1
                 /\ pc' = (IF folderIdx = Len(targetFolders) THEN "update" ELSE "identify")
  /\ UNCHANGED <<variant, cliArgs, tree, faults, ignoreFile, effectiveDeleteFiles,
                 effectiveUpdateForceignore, searchStartPath, targetFolders,
                 allFilesIdentifiedForAction, exitCode, runs, tree0, ignore0, callVars>>

(* The record a call of updateForceignoreFile leaves in the call history.  *)
Called(root, batch) ==
  /\ calls' = calls + 1
  /\ lastRoot' = root
  /\ lastBatch' = batch
  /\ prevFile' = ignoreFile[ForceignorePath(root)]
  /\ repeat' = (calls > 0 /\ lastRoot = root /\ lastBatch = batch)
  /\ ignoreFile' = [ignoreFile EXCEPT
                      ![ForceignorePath(root)] = updateForceignoreFile(@, root, batch)]

(* Variant of ActStep that calls updateForceignoreFile at the end of each  *)
(* folder, with the files of that folder, inside the loop over the         *)
(* folders.                                                                *)
ActStepUpdatePerFolder ==
  /\ pc = "act"
  /\ LET filePath == filesInFolder[fileIdx]
         lastOne  == fileIdx = Len(filesInFolder)
         file     == ignoreFile[ForceignorePath(searchStartPath)]
         unlinked == IF effectiveDeleteFiles
                     THEN Append(log, <<"unlink", filePath>>) ELSE log
     IN  /\ tree' = (IF effectiveDeleteFiles THEN Unlink(tree, faults, filePath) ELSE tree)
         /\ IF lastOne /\ effectiveUpdateForceignore
            THEN /\ Called(searchStartPath, filesInFolder)
                 /\ log' = unlinked
                           \o (IF file.exists THEN << <<"read">> >> ELSE <<>>)
                           \o (IF UpdateNewPaths(file, searchStartPath, filesInFolder) # <<>>
                               THEN << <<"append">> >> ELSE <<>>)
            ELSE /\ log' = unlinked
                 /\ UNCHANGED <<ignoreFile, callVars>>
  /\ IF fileIdx < Len(filesInFolder)
     THEN /\ fileIdx' = fileIdx + 1
          /\ UNCHANGED <<pc, folderIdx, filesInFolder, allFilesIdentifiedForAction>>
     ELSE /\ allFilesIdentifiedForAction' = allFilesIdentifiedForAction \o filesInFolder
          /\ fileIdx' = 1
          /\ filesInFolder' = <<>>
          /\ folderIdx' = folderIdx + 1
          /\ pc' = (IF folderIdx = Len(targetFolders) THEN "update" ELSE "identify")
  /\ UNCHANGED <<variant, cliArgs, faults, effectiveDeleteFiles,
                 effectiveUpdateForceignore, searchStartPath, targetFolders, exitCode,
                 runs, tree0, ignore0>>

(* Variant of ActStep that keeps for the ignore-file update only the files *)
(* it has deleted.                                                         *)
ActStepRecordDeletedOnly ==
  /\ pc = "act"
  /\ LET filePath == filesInFolder[fileIdx]
     IN  IF effectiveDeleteFiles
         THEN /\ tree' = Unlink(tree, faults, filePath)
              /\ log' = Append(log, <<"unlink", filePath>>)
         ELSE /\ tree' = tree
              /\ log' = log
  /\ IF fileIdx < Len(filesInFolder)
     THEN /\ fileIdx' = fileIdx + 1
          /\ UNCHANGED <<pc, folderIdx, filesInFolder, allFilesIdentifiedForAction>>
     ELSE /\ allFilesIdentifiedForAction' =
               allFilesIdentifiedForAction
                 \o SelectSeq(filesInFolder, LAMBDA f : f \notin DOMAIN tree')
          /\ fileIdx' = 1
          /\ filesInFolder' = <<>>
          /\ folderIdx' = folderIdx + 1
          /\ pc' = (IF folderIdx = Len(targetFolders) THEN "update" ELSE "identify")
  /\ UNCHANGED <<variant, cliArgs, faults, ignoreFile, effectiveDeleteFiles,
                 effectiveUpdateForceignore, searchStartPath, targetFolders, exitCode,
                 runs, tree0, ignore0, callVars>>

(* Variant of ActStep without the try around fs.unlinkSync: an unlink that *)
(* throws ends main.                                                       *)
ActStepAbortOnError ==
  /\ pc = "act"
  /\ LET filePath == filesInFolder[fileIdx]
         thrown   == effectiveDeleteFiles /\ Unlink(tree, faults, filePath) = tree
     IN  /\ IF effectiveDeleteFiles
            THEN /\ tree' = Unlink(tree, faults, filePath)
                 /\ log' = Append(log, <<"unlink", filePath>>)
            ELSE /\ tree' = tree
                 /\ log' = log
         /\ IF thrown
            THEN /\ pc' = "done"
                 /\ exitCode' = 1
                 /\ UNCHANGED <<fileIdx, folderIdx, filesInFolder,
                                allFilesIdentifiedForAction>>
            ELSE /\ exitCode' = exitCode
                 /\ IF fileIdx < Len(filesInFolder)
                    THEN /\ fileIdx' = fileIdx + 1
                         /\ UNCHANGED <<pc, folderIdx, filesInFolder,
                                        allFilesIdentifiedForAction>>
                    ELSE /\ allFilesIdentifiedForAction' =
                              allFilesIdentifiedForAction \o filesInFolder
                         /\ fileIdx' = 1
                         /\ filesInFolder' = <<>>
                         /\ folderIdx' = folderIdx + 1
                         /\ pc' = (IF folderIdx = Len(targetFolders)
                                   THEN "update" ELSE "identify")
  /\ UNCHANGED <<variant, cliArgs, faults, ignoreFile, effectiveDeleteFiles,
                 effectiveUpdateForceignore, searchStartPath, targetFolders,
                 runs, tree0, ignore0, callVars>>

(* One round of filesInFolder.forEach: the unlink when deletion is on; and *)
(* after the last file the concat onto allFilesIdentifiedForAction.        *)
ActStep ==
  /\ pc = "act"
  /\ LET filePath == filesInFolder[fileIdx]
     IN  IF effectiveDeleteFiles
         THEN /\ tree' = Unlink(tree, faults, filePath)
              /\ log' = Append(log, <<"unlink", filePath>>)
         ELSE /\ tree' = tree
              /\ log' = log
  /\ IF fileIdx < Len(filesInFolder)
     THEN /\ fileIdx' = fileIdx + 1
          /\ UNCHANGED <<pc, folderIdx, filesInFolder, allFilesIdentifiedForAction>>
     ELSE /\ allFilesIdentifiedForAction' = allFilesIdentifiedForAction \o filesInFolder
          /\ fileIdx' = 1
          /\ filesInFolder' = <<>>
          /\ folderIdx' = folderIdx + 1
          /\ pc' = (IF folderIdx = Len(targetFolders) THEN "update" ELSE "identify")
  /\ UNCHANGED <<variant, cliArgs, faults, ignoreFile, effectiveDeleteFiles,
                 effectiveUpdateForceignore, searchStartPath, targetFolders, exitCode,
                 runs, tree0, ignore0, callVars>>

(* The end of main: the call of updateForceignoreFile behind its guard.    *)
UpdateStep ==
  /\ pc = "update"
  /\ IF effectiveUpdateForceignore /\ Len(allFilesIdentifiedForAction) > 0
     THEN /\ Called(searchStartPath, allFilesIdentifiedForAction)
          /\ LET file == ignoreFile[ForceignorePath(searchStartPath)]
             IN  log' = log
                        \o (IF file.exists THEN << <<"read">> >> ELSE <<>>)
                        \o (IF UpdateNewPaths(file, searchStartPath,
                                              allFilesIdentifiedForAction) # <<>>
                            THEN << <<"append">> >> ELSE <<>>)
     ELSE UNCHANGED <<ignoreFile, callVars, log>>
  /\ pc' = "done"
  /\ exitCode' = 0
  /\ UNCHANGED <<variant, cliArgs, tree, faults, effectiveDeleteFiles,
                 effectiveUpdateForceignore, searchStartPath, targetFolders, folderIdx,
                 filesInFolder, fileIdx, allFilesIdentifiedForAction, runs, tree0, ignore0>>

(* One round of targetFolders.forEach of the flagless variant.             *)
ProcessStep ==
  /\ pc = "process"
  /\ tree' = processFilesLookigForAbsence(tree, faults, targetFolders[folderIdx],
                                          CRITERIA_STRING)
  /\ log' = Append(log, <<"process", targetFolders[folderIdx]>>)
  /\ folderIdx' = folderIdx + 1
  /\ IF folderIdx = Len(targetFolders)
     THEN pc' = "done" /\ exitCode' = 0
     ELSE pc' = "process" /\ exitCode' = exitCode
  /\ UNCHANGED <<variant, cliArgs, faults, ignoreFile, effectiveDeleteFiles,
                 effectiveUpdateForceignore, searchStartPath, targetFolders,
                 filesInFolder, fileIdx, allFilesIdentifiedForAction, runs, tree0,
                 ignore0, callVars>>

(* The operator runs the same command again on what the last run left.     *)
Rerun ==
  /\ pc = "done"
  /\ runs < MaxRuns
  /\ runs' = runs + 1
  /\ pc' = "parse"
  /\ effectiveDeleteFiles' = DEFAULT_DELETE_FILES
  /\ effectiveUpdateForceignore' = DEFAULT_UPDATE_FORCEIGNORE
  /\ searchStartPath' = <<>>
  /\ targetFolders' = <<>>
  /\ folderIdx' = 1
  /\ filesInFolder' = <<>>
  /\ fileIdx' = 1
  /\ allFilesIdentifiedForAction' = <<>>
  /\ exitCode' = -1
  /\ tree0' = tree
  /\ ignore0' = ignoreFile
  /\ log' = <<>>
  /\ UNCHANGED <<variant, cliArgs, tree, faults, ignoreFile, callVars>>

Next ==
  \/ LoadStep
  \/ ParseStep
  \/ ParseStep2
  \/ RootStep
  \/ ScanStep
  \/ IdentifyStep
  \/ ActStep
  \/ UpdateStep
  \/ ProcessStep
  \/ Rerun

Spec == Init /\ [][Next]_vars

(* The steps of main after the root test.                                  *)
WorkStep ==
  \/ ScanStep
  \/ IdentifyStep
  \/ ActStep
  \/ UpdateStep
  \/ ProcessStep

(* Weak fairness of WorkStep, WF_vars(WorkStep), written out.  WorkStep is  *)
(* enabled exactly at the positions named here, so `infinitely often       *)
(* disabled or infinitely often taken' reads as below.                     *)
WorkFairness ==
  \/ []<>(pc \notin {"scan", "identify", "act", "update", "process"})
  \/ []<><<WorkStep>>_vars

(* node compiles the file it is given, and main is one synchronous         *)
(* function whose loops are over finite lists: a step that can be taken is *)
(* taken.  Nothing obliges the operator to *)
(* run the command again.                                                  *)
SpecLive ==
  /\ Init
  /\ [][Next]_vars
  /\ WF_vars(LoadStep)
  /\ WF_vars(ParseStep)
  /\ WF_vars(ParseStep2)
  /\ WF_vars(RootStep)
  /\ WorkFairness

----------------------------------------------------------------------------
(* The command line on its own: main started with any sequence of up to    *)
(* MaxArgs arguments, up to its root test.                                 *)

(* The words of a command line: the four flags, an unknown option, a       *)
(* directory in five spellings, the current directory, its parent, a       *)
(* regular file, a path that does not exist and the empty string.          *)
ArgWords ==
  { ARG_DELETE, ARG_NO_DELETE, ARG_UPDATE, ARG_NO_UPDATE, ARG_UNKNOWN,
    ARG_PROJ, ARG_PROJ_SLASH, ARG_PROJ_A, ARG_ABS_PROJ, ARG_DOT, ARG_DOTDOT,
    <<"f">>, <<"z">>, <<>> }

ArgSeqs == UNION { [1..n -> ArgWords] : n \in 0..MaxArgs }

InitArgs ==
  /\ variant = "flags"
  /\ cliArgs \in ArgSeqs
  /\ tree = TreeOf(Nodes(NoMarker))
  /\ faults = {}
  /\ ignoreFile = [q \in IgnorePaths |-> NoFile]
  /\ pc = "parse"
  /\ RunStart
  /\ runs = 1
  /\ tree0 = tree
  /\ ignore0 = ignoreFile
  /\ log = <<>>
  /\ NoCallYet

NextArgs ==
  \/ ParseStep
  \/ RootStep

SpecArgs == InitArgs /\ [][NextArgs]_vars

----------------------------------------------------------------------------
(* The writer on its own: updateForceignoreFile called in a row on one     *)
(* ignore file, each time with any batch of paths below the root.          *)

(* Paths of files below PROJ: an ordinary one, and one whose first name    *)
(* starts with the comment character.                                      *)
WriterPaths ==
  { PROJ \o << <<"a">>, T, <<"y">>>>,
    PROJ \o << <<"#", "c">>, T, <<"y">>>> }

Batches == UNION { [1..n -> WriterPaths] : n \in 0..MaxBatch }

(* Lines an ignore file starts with: a blank one, the header after a       *)
(* byte-order mark, an entry equal to a path of WriterPaths (before a      *)
(* no-break space and a CR), an unrelated entry.                           *)
WriterLines ==
  { <<" ">>,
    <<"U+FEFF">> \o SCRIPT_IGNORE_COMMENT,
    REL_A_T_Y \o <<"U+00A0", "\r">>,
    <<"*", ".", "l", "o", "g">> }

(* Texts of up to two such lines, the last one terminated or not.          *)
WriterTexts ==
  LET bodies == {<<>>} \cup WriterLines
                \cup { a \o <<"\n">> \o b : a \in WriterLines, b \in WriterLines }
  IN  bodies \cup { b \o <<"\n">> : b \in bodies }

WriterFiles ==
  {NoFile, [NoFile EXCEPT !.appendErr = TRUE]}
  \cup { TextFile(c) : c \in WriterTexts }
  \cup { [TextFile(REL_T_Y \o <<"\n">>) EXCEPT !.readErr = TRUE],
         [TextFile(REL_T_Y \o <<"\n">>) EXCEPT !.appendErr = TRUE] }

InitWriter ==
  /\ variant = "flags"
  /\ cliArgs = <<>>
  /\ tree = TreeOf({Dir(CWD), Dir(PROJ)})
  /\ faults = {}
  /\ \E f \in WriterFiles :
       ignoreFile = [q \in IgnorePaths |-> IF q = ForceignorePath(PROJ) THEN f ELSE NoFile]
  /\ pc = "writer"
  /\ RunStart
  /\ runs = 0
  /\ tree0 = tree
  /\ ignore0 = ignoreFile
  /\ log = <<>>
  /\ NoCallYet

(* One call of updateForceignoreFile(PROJ, batch).                         *)
WriterCall ==
  /\ pc = "writer"
  /\ calls < MaxCalls
  /\ \E batch \in Batches : Called(PROJ, batch)
  /\ UNCHANGED <<variant, cliArgs, tree, faults, pc, runVars, runs, tree0, ignore0, log>>

NextWriter == WriterCall

SpecWriter == InitWriter /\ [][NextWriter]_vars

----------------------------------------------------------------------------
(* Vocabulary of the properties of the ignore file.  These definitions say *)
(* what a reader of the file sees; they do not use the writer's own        *)
(* bookkeeping.                                                            *)

(* The lines of a text: each ends at a "\n"; text after the last "\n" is a *)
(* last, unterminated line when there is any.  A "\r" stays in its line.   *)
TextLines(s) ==
  LET ends    == {i \in 1..Len(s) : s[i] = "\n"}
      n       == Cardinality(ends)
      nth(k)  == CHOOSE i \in ends : Cardinality({j \in ends : j < i}) = k - 1
      from(k) == IF k = 1 THEN 1 ELSE nth(k - 1) + 1
      upto(k) == IF k = n + 1 THEN Len(s) ELSE nth(k) - 1
  IN  [k \in 1..(IF from(n + 1) <= Len(s) THEN n + 1 ELSE n) |->
         SubSeq(s, from(k), upto(k))]

TextOf(file) == IF file.exists THEN file.content ELSE <<>>

(* The entries of an ignore file: its trimmed lines that are neither blank *)
(* nor comments.                                                           *)
EntriesOf(file) ==
  LET lines == TextLines(TextOf(file))
  IN  { Trim(lines[k]) : k \in { j \in 1..Len(lines) :
          Trim(lines[j]) # <<>> /\ Trim(lines[j])[1] # "#" } }

(* How many lines of the file are the header, up to surrounding blanks.    *)
HeaderCount(file) ==
  LET lines == TextLines(TextOf(file))
  IN  Cardinality({k \in 1..Len(lines) : Trim(lines[k]) = SCRIPT_IGNORE_COMMENT})

(* The file the latest call of updateForceignoreFile worked on, as it is   *)
(* now, and the text that call added to it.                                *)
CurFile == ignoreFile[ForceignorePath(lastRoot)]

IsPrefix(a, b) == Len(a) <= Len(b) /\ SubSeq(b, 1, Len(a)) = a

AddedText == SubSeq(TextOf(CurFile), Len(TextOf(prevFile)) + 1, Len(TextOf(CurFile)))

(* The relative paths of the latest batch, in order; and those among them  *)
(* that were no entry of the file before the call.                         *)
BatchRel == [i \in 1..Len(lastBatch) |-> RelativePath(lastRoot, lastBatch[i])]

NewInBatch == { BatchRel[i] : i \in 1..Len(lastBatch) } \ EntriesOf(prevFile)

(* The lines of the added text other than blank ones and the header.       *)
AddedEntries ==
  LET lines == TextLines(AddedText)
      keep  == {k \in 1..Len(lines) : lines[k] # <<>> /\ lines[k] # SCRIPT_IGNORE_COMMENT}
      nth(k) == CHOOSE i \in keep : Cardinality({j \in keep : j < i}) = k - 1
  IN  [k \in 1..Cardinality(keep) |-> lines[nth(k)]]

----------------------------------------------------------------------------
(* Properties of updateForceignoreFile, checked under SpecWriter.          *)

(* C1: calling updateForceignoreFile twice in a row with the same root and *)
(* the same batch is idempotent: the second call leaves the file exactly   *)
(* as the first call left it, whatever the file held and whatever the      *)
(* paths are.                                                              *)
C1_SecondCallChangesNothing == (calls >= 2 /\ repeat) => CurFile = prevFile

(* C3: the ignore file is append-only by lines: the lines the file had     *)
(* before a call are all still there after it, unchanged and in the same   *)
(* order, and what the call added comes after them.                        *)
C3_LinesKeptAndAddedAfter ==
  calls > 0 =>
    /\ IsPrefix(TextOf(prevFile), TextOf(CurFile))
    /\ IsPrefix(TextLines(TextOf(prevFile)), TextLines(TextOf(CurFile)))

(* C7: the block one call appends holds no entry that the file already     *)
(* had (as a trimmed line that is neither blank nor a comment) and no      *)
(* entry twice, also when the batch names a path several times.            *)
C7_BlockHasNoDuplicates ==
  calls > 0 =>
    /\ \A k \in 1..Len(AddedEntries) : AddedEntries[k] \notin EntriesOf(prevFile)
    /\ \A j, k \in 1..Len(AddedEntries) : AddedEntries[j] = AddedEntries[k] => j = k

(* C7 witness: a batch naming one new path twice was appended as a block   *)
(* holding that path once.                                                 *)
C7_Witness ==
  /\ calls > 0
  /\ Len(lastBatch) = 2
  /\ lastBatch[1] = lastBatch[2]
  /\ prevFile.exists
  /\ EntriesOf(prevFile) # {}
  /\ AddedEntries = <<BatchRel[1]>>

(* C8: a call with no new path (an empty batch, or every path already an   *)
(* entry) does not touch the file: an existing file keeps its text, an     *)
(* absent file stays absent; a file comes into being only with a path to   *)
(* append.                                                                 *)
C8_NoNewPathNoTouch ==
  calls > 0 =>
    /\ NewInBatch = {} => CurFile = prevFile
    /\ (~prevFile.exists /\ CurFile.exists) => NewInBatch # {}

(* C8 witness: a non-empty batch whose paths were all entries already left *)
(* an existing file as it was.                                             *)
C8_Witness ==
  /\ calls > 0
  /\ lastBatch # <<>>
  /\ NewInBatch = {}
  /\ prevFile.exists
  /\ ~prevFile.readErr
  /\ CurFile = prevFile

(* C9: a call writes the header exactly when it appends entries to a file  *)
(* none of whose lines is the header (after trimming); so a file that      *)
(* started with at most one header line never has more than one, and has   *)
(* exactly one once anything was appended.                                 *)
C9_HeaderOnce ==
  /\ calls > 0 =>
       HeaderCount(CurFile) = HeaderCount(prevFile)
         + (IF CurFile # prevFile /\ HeaderCount(prevFile) = 0 THEN 1 ELSE 0)
  /\ \A q \in IgnorePaths :
       HeaderCount(ignore0[q]) <= 1 =>
         /\ HeaderCount(ignoreFile[q]) <= 1
         /\ ignoreFile[q] # ignore0[q] => HeaderCount(ignoreFile[q]) = 1

(* C9 witness: two calls in a row both appended entries, the first one to  *)
(* a file without the header, and the file has one header line.            *)
C9_Witness ==
  /\ calls = 2
  /\ HeaderCount(ignore0[ForceignorePath(lastRoot)]) = 0
  /\ ignore0[ForceignorePath(lastRoot)].exists
  /\ prevFile # ignore0[ForceignorePath(lastRoot)]
  /\ CurFile # prevFile
  /\ HeaderCount(CurFile) = 1

(* C10: when a call appends, every new relative path is a whole line of    *)
(* the file afterwards, whatever the last line of the file was before, and *)
(* the file ends with a newline; an absent or empty file becomes the       *)
(* header line followed by the new paths.                                  *)
C10_NewPathsAreWholeLines ==
  (calls > 0 /\ CurFile # prevFile) =>
    LET lines == TextLines(TextOf(CurFile))
    IN  /\ \A e \in NewInBatch : \E k \in 1..Len(lines) : lines[k] = e
        /\ TextOf(CurFile)[Len(TextOf(CurFile))] = "\n"
        /\ TextOf(prevFile) = <<>> =>
             TextOf(CurFile) = SCRIPT_IGNORE_COMMENT \o <<"\n">>
                               \o Join(AddedEntries, <<"\n">>) \o <<"\n">>

----------------------------------------------------------------------------
(* Vocabulary of the properties of a run: what the tree and the faults say *)
(* a run from a root should find, without running the scan.                *)

ParentOf(p) == SubSeq(p, 1, Len(p) - 1)

NameOf(p) == p[Len(p)]

(* stat of p succeeds; the directory d can be listed.                      *)
Visible(t, flt, p) == p \in DOMAIN t /\ <<"stat", p>> \notin flt

Listable(t, flt, d) == d \in DOMAIN t /\ t[d].kind = "dir" /\ <<"read", d>> \notin flt

(* d is the root, or lies below it such that every directory from the      *)
(* root's child down to d can be stat-ed, is a directory with a name       *)
(* outside the ignored set, and sits in a directory that can be listed.    *)
Entered(t, flt, root, d) ==
  /\ IsPrefix(root, d)
  /\ \A k \in (Len(root) + 1)..Len(d) :
       LET q == SubSeq(d, 1, k)
       IN  /\ Visible(t, flt, q)
           /\ t[q].kind = "dir"
           /\ d[k] \notin IGNORE_DIRS
           /\ Listable(t, flt, ParentOf(q))

(* The target directories below a root that passes the root test: named    *)
(* like the target, stat-able directories, listed in a directory the scan  *)
(* enters and can list.                                                    *)
MatchedDirs(t, flt, root) ==
  { p \in DOMAIN t :
      /\ Visible(t, flt, root)
      /\ t[root].kind = "dir"
      /\ Len(p) > Len(root)
      /\ NameOf(p) = TARGET_FOLDER_NAME
      /\ Visible(t, flt, p)
      /\ t[p].kind = "dir"
      /\ Entered(t, flt, root, ParentOf(p))
      /\ Listable(t, flt, ParentOf(p)) }

(* The ACTIONABLE files: regular files directly in a target directory that *)
(* can be stat-ed and read and whose text lacks the marker.                *)
Actionable(t, flt, root) ==
  LET matched == MatchedDirs(t, flt, root)
  IN  { f \in DOMAIN t :
          /\ Len(f) > 1
          /\ ParentOf(f) \in matched
          /\ Listable(t, flt, ParentOf(f))
          /\ Visible(t, flt, f)
          /\ t[f].kind = "file"
          /\ <<"read", f>> \notin flt
          /\ ~Includes(t[f].content, CRITERIA_STRING) }

(* The files the current run has removed so far.                           *)
Removed == DOMAIN tree0 \ DOMAIN tree

(* The scan of the current run is over.                                    *)
Scanned == pc \in {"identify", "act", "update", "process"} \/ (pc = "done" /\ exitCode = 0)

(* The command line holds no option.                                       *)
NoFlags == \A i \in 1..Len(cliArgs) : ~StartsWith(cliArgs[i], <<"-", "-">>)

----------------------------------------------------------------------------
(* Properties of a run, checked under Spec.                                *)

(* C2 as stated: with delete disabled a run removes no file; with delete   *)
(* enabled the files a finished run has removed are exactly the ACTIONABLE *)
(* set, and no other file is removed.                                      *)
C2_RemovesExactlyActionable ==
  /\ (pc # "parse" /\ ~effectiveDeleteFiles) => Removed = {}
  /\ (pc = "done" /\ effectiveDeleteFiles) =>
       Removed = Actionable(tree0, faults, searchStartPath)

(* C2 amended: with delete disabled a run removes no file; with delete     *)
(* enabled the files a finished run has removed are exactly the ACTIONABLE *)
(* files whose unlink does not fail, and no other file is removed.         *)
C2_RemovesActionableUnlessUnlinkFails ==
  /\ (pc # "parse" /\ ~effectiveDeleteFiles) => Removed = {}
  /\ Removed \subseteq Actionable(tree0, faults, searchStartPath)
  /\ (pc = "done" /\ effectiveDeleteFiles) =>
       Removed = { f \in Actionable(tree0, faults, searchStartPath) :
                     <<"unlink", f>> \notin faults }

(* C2 witness: a finished run with delete enabled removed some files, left *)
(* an ACTIONABLE file whose unlink failed, and left a file with the marker *)
(* in a target directory.                                                  *)
C2_Witness ==
  /\ pc = "done"
  /\ effectiveDeleteFiles
  /\ Removed # {}
  /\ \E f \in Actionable(tree0, faults, searchStartPath) : f \in DOMAIN tree
  /\ \E f \in DOMAIN tree :
       /\ ParentOf(f) \in MatchedDirs(tree0, faults, searchStartPath)
       /\ tree[f].kind = "file"
       /\ Includes(tree[f].content, CRITERIA_STRING)

(* C4: a run started with no option is a dry run: both settings are off    *)
(* and the run removes no file and leaves every ignore file as it was.     *)
C4_NoFlagsIsDryRun ==
  NoFlags =>
    /\ pc # "parse" => (~effectiveDeleteFiles /\ ~effectiveUpdateForceignore)
    /\ tree = tree0
    /\ ignoreFile = ignore0

(* C5: no directory the scan returns lies below a directory with an        *)
(* ignored name, at any depth below the search root.                       *)
C5_NothingFoundBelowIgnored ==
  \A i \in 1..Len(targetFolders) :
    \A k \in (Len(searchStartPath) + 1)..(Len(targetFolders[i]) - 1) :
      targetFolders[i][k] \notin IGNORE_DIRS

(* C5 witness: the scan returned target directories from a tree that holds *)
(* target-named directories below an ignored name right under the root and *)
(* below one deeper down.                                                  *)
C5_Witness ==
  /\ Scanned
  /\ targetFolders # <<>>
  /\ \E p \in DOMAIN tree :
       /\ IsPrefix(searchStartPath, p)
       /\ NameOf(p) = TARGET_FOLDER_NAME
       /\ tree[p].kind = "dir"
       /\ p[Len(searchStartPath) + 1] \in IGNORE_DIRS
  /\ \E p \in DOMAIN tree :
       /\ IsPrefix(searchStartPath, p)
       /\ NameOf(p) = TARGET_FOLDER_NAME
       /\ tree[p].kind = "dir"
       /\ \E k \in (Len(searchStartPath) + 2)..(Len(p) - 1) : p[k] \in IGNORE_DIRS

(* C6: the scan returns, each once, exactly the target-named directories   *)
(* that can be reached from the root through directories that can be       *)
(* stat-ed and listed and are not ignored; an entry that fails takes only  *)
(* itself and what lies below it out of the result.                        *)
C6_ScanIsCompleteAndBestEffort ==
  Scanned =>
    /\ { targetFolders[i] : i \in 1..Len(targetFolders) }
         = MatchedDirs(tree0, faults, searchStartPath)
    /\ \A i, j \in 1..Len(targetFolders) : targetFolders[i] = targetFolders[j] => i = j

(* C6 witness: with a directory that cannot be stat-ed or listed, the scan *)
(* still returned a target at depth one and a target nested in a target,   *)
(* and left out a target below the failing directory.                      *)
C6_Witness ==
  /\ Scanned
  /\ \E c \in {"stat", "read"} : <<c, searchStartPath \o << <<"a">> >> >> \in faults
  /\ \E i \in 1..Len(targetFolders) : Len(targetFolders[i]) = Len(searchStartPath) + 1
  /\ \E i \in 1..Len(targetFolders) : Len(targetFolders[i]) = Len(searchStartPath) + 2
  /\ \E p \in DOMAIN tree :
       /\ p # <<>>
       /\ NameOf(p) = TARGET_FOLDER_NAME
       /\ tree[p].kind = "dir"
       /\ ParentOf(p) = searchStartPath \o << <<"a">> >>
       /\ \A i \in 1..Len(targetFolders) : targetFolders[i] # p

----------------------------------------------------------------------------
(* What a run has touched.                                                 *)

Range(s) == { s[i] : i \in 1..Len(s) }

(* The files the run has classified as actionable, removed, or handed to   *)
(* the ignore-file update so far.                                          *)
Touched == Removed \cup Range(filesInFolder) \cup Range(allFilesIdentifiedForAction)

(* The entries the ignore files hold now and did not hold when the run     *)
(* started.                                                                *)
NewEntries ==
  UNION { IF ignoreFile[q] = ignore0[q] THEN {}
          ELSE EntriesOf(ignoreFile[q]) \ EntriesOf(ignore0[q]) : q \in IgnorePaths }

(* The regular files directly inside a matched directory.                  *)
DirectFiles ==
  LET matched == MatchedDirs(tree0, faults, searchStartPath)
  IN  { f \in DOMAIN tree0 :
          /\ Len(f) > 1
          /\ ParentOf(f) \in matched
          /\ tree0[f].kind = "file" }

(* C11 as stated: no file the run classifies, removes or records lies      *)
(* deeper than one level below a matched directory.                        *)
C11_NothingDeeperThanOneLevel ==
  Touched # {} =>
    \A m \in MatchedDirs(tree0, faults, searchStartPath) :
      \A f \in Touched : ~(IsPrefix(m, f) /\ Len(f) > Len(m) + 1)

(* C11 amended: every file the run classifies, removes or records is a     *)
(* regular file directly inside a matched directory; a file in a           *)
(* subdirectory of a matched directory is touched only when that           *)
(* subdirectory is itself a matched directory.                             *)
C11_OnlyDirectFileChildren ==
  LET direct == DirectFiles
  IN  /\ Touched \subseteq direct
      /\ NewEntries \subseteq { RelativePath(searchStartPath, f) : f \in direct }

(* C11 witness: a finished run with delete and update enabled removed and  *)
(* recorded files, and a file without the marker in a plain subdirectory   *)
(* of a matched directory is still there, unrecorded.                      *)
C11_Witness ==
  /\ pc = "done"
  /\ effectiveDeleteFiles
  /\ Removed # {}
  /\ NewEntries # {}
  /\ \E f \in DOMAIN tree :
       /\ tree[f].kind = "file"
       /\ ~Includes(tree[f].content, CRITERIA_STRING)
       /\ Len(f) > 2
       /\ ParentOf(ParentOf(f)) \in MatchedDirs(tree0, faults, searchStartPath)
       /\ NameOf(ParentOf(f)) # TARGET_FOLDER_NAME
       /\ RelativePath(searchStartPath, f) \notin NewEntries

(* The regular files whose stat or read fails, the tree without them, and  *)
(* the faults that are not theirs.                                         *)
FailingFiles ==
  { f \in DOMAIN tree0 :
      tree0[f].kind = "file" /\ (<<"stat", f>> \in faults \/ <<"read", f>> \in faults) }

TreeWithout(t, S) == [p \in DOMAIN t \ S |-> t[p]]

FaultsElsewhere == { x \in faults : x[2] \notin FailingFiles }

(* The ACTIONABLE files of the tree the run started from if the failing    *)
(* files were not there.                                                   *)
ActionableIfAbsent ==
  Actionable(TreeWithout(tree0, FailingFiles), FaultsElsewhere, searchStartPath)

(* The ignore file of the run can be read (when it exists) and appended to.*)
IgnoreFileWorks ==
  LET file == ignore0[ForceignorePath(searchStartPath)]
  IN  ~(file.exists /\ file.readErr) /\ ~file.appendErr

(* C12: a file whose stat or read fails is never classified, removed or    *)
(* recorded, and the run classifies, removes and records the other files   *)
(* exactly as a run on the tree without the failing file does.             *)
C12_FailingFileOnlyExcludesItself ==
  LET asIfAbsent == ActionableIfAbsent
  IN  /\ Touched \cap FailingFiles = {}
      /\ NewEntries \cap { RelativePath(searchStartPath, f) : f \in FailingFiles } = {}
      /\ (variant = "flags" /\ (pc = "update" \/ (pc = "done" /\ exitCode = 0))) =>
           Range(allFilesIdentifiedForAction) = asIfAbsent
      /\ (pc = "done" /\ exitCode = 0) =>
           /\ Removed = IF effectiveDeleteFiles
                        THEN { f \in asIfAbsent : <<"unlink", f>> \notin faults }
                        ELSE {}
           /\ (effectiveUpdateForceignore /\ IgnoreFileWorks) =>
                { RelativePath(searchStartPath, f) : f \in asIfAbsent }
                  \subseteq EntriesOf(ignoreFile[ForceignorePath(searchStartPath)])

(* C12 witness: a finished run with delete and update enabled left a file  *)
(* without the marker whose stat or read fails in place and unrecorded,    *)
(* and removed and recorded a file listed after it in the same directory.  *)
C12_Witness ==
  /\ pc = "done"
  /\ exitCode = 0
  /\ effectiveDeleteFiles
  /\ effectiveUpdateForceignore
  /\ \E f \in FailingFiles :
       /\ f \in DOMAIN tree
       /\ ~Includes(tree[f].content, CRITERIA_STRING)
       /\ ParentOf(f) \in MatchedDirs(tree0, faults, searchStartPath)
       /\ \E g \in Removed :
            /\ ParentOf(g) = ParentOf(f)
            /\ NameOf(f) = <<"y">> /\ NameOf(g) = <<"z">>
            /\ RelativePath(searchStartPath, g) \in NewEntries

(* The files the run has called fs.unlinkSync on, and the place of such a  *)
(* call in the run's sequence of file-system calls.                        *)
UnlinkAttempts == { log[i][2] : i \in { j \in 1..Len(log) : log[j][1] = "unlink" } }

UnlinkFailed(f) == f \in UnlinkAttempts /\ f \in DOMAIN tree

(* The arguments that are not options, in order.                           *)
NonFlagPlaces == { i \in 1..Len(cliArgs) : ~StartsWith(cliArgs[i], <<"-", "-">>) }

(* The directory a path argument names, read off the argument: the empty   *)
(* string and "." name the current directory, ".." its parent, and a       *)
(* relative path a place below the current directory.                      *)
DirectoryNamed(arg) ==
  CASE arg \in {<<>>, ARG_DOT} -> CWD
    [] arg = ARG_DOTDOT -> ParentOf(CWD)
    [] arg \in {ARG_PROJ, ARG_PROJ_SLASH, ARG_ABS_PROJ} -> CWD \o <<ARG_PROJ>>
    [] arg = ARG_PROJ_A -> CWD \o <<ARG_PROJ, <<"a">>>>
    [] OTHER -> CWD \o <<arg>>

(* The search root the command line asks for: the first argument that is   *)
(* not an option (the flagless script: the first argument), else the       *)
(* current directory.                                                      *)
CommandRoot ==
  IF variant = "fixed"
  THEN IF cliArgs = <<>> THEN CWD ELSE DirectoryNamed(cliArgs[1])
  ELSE IF NonFlagPlaces = {} THEN CWD
       ELSE DirectoryNamed(cliArgs[CHOOSE i \in NonFlagPlaces :
                                     \A j \in NonFlagPlaces : i <= j])

(* The search root of the command line is a directory.                     *)
ValidRoot ==
  Visible(tree0, faults, CommandRoot) /\ tree0[CommandRoot].kind = "dir"

(* C13: when a run with delete enabled has finished, every ACTIONABLE file *)
(* has been attempted and every one whose unlink does not fail is gone,    *)
(* whichever unlinks failed; and with update enabled every ACTIONABLE file *)
(* is an entry of the ignore file.                                         *)
C13_FailedDeletionDoesNotStopRun ==
  (pc = "done" /\ ValidRoot /\ effectiveDeleteFiles) =>
    LET actionable == Actionable(tree0, faults, searchStartPath)
    IN  /\ variant = "flags" => UnlinkAttempts = actionable
        /\ Removed = { f \in actionable : <<"unlink", f>> \notin faults }
        /\ exitCode = 0
        /\ (effectiveUpdateForceignore /\ IgnoreFileWorks) =>
             { RelativePath(searchStartPath, f) : f \in actionable }
               \subseteq EntriesOf(ignoreFile[ForceignorePath(searchStartPath)])

(* C13 witness: a finished run with delete and update enabled in which an  *)
(* unlink failed, a file attempted after it, in another directory, is      *)
(* gone, and the update appended the paths of both.                        *)
C13_Witness ==
  /\ pc = "done"
  /\ effectiveDeleteFiles
  /\ effectiveUpdateForceignore
  /\ \E i, j \in 1..Len(log) :
       /\ i < j
       /\ log[i][1] = "unlink" /\ log[j][1] = "unlink"
       /\ UnlinkFailed(log[i][2])
       /\ log[j][2] \in Removed
       /\ ParentOf(log[j][2]) # ParentOf(log[i][2])
       /\ {RelativePath(searchStartPath, log[i][2]), RelativePath(searchStartPath, log[j][2])}
            \subseteq NewEntries

(* The places in the run's sequence of file-system calls of the calls of   *)
(* one kind.                                                               *)
CallsOf(kind) == { i \in 1..Len(log) : log[i][1] = kind }

(* The ignore file of the run existed at the start and cannot be read.     *)
IgnoreFileUnreadable ==
  LET file == ignore0[ForceignorePath(searchStartPath)]
  IN  file.exists /\ file.readErr

(* C14: when the update step of a run has tried to read the existing       *)
(* ignore file and could not, the finished run has left every ignore file  *)
(* as it was, has removed every ACTIONABLE file that can be removed when   *)
(* delete is enabled, and has exited with 0.                               *)
C14_UnreadableIgnoreFileOnlyAbortsUpdate ==
  (pc = "done" /\ CallsOf("read") # {} /\ IgnoreFileUnreadable) =>
    /\ ignoreFile = ignore0
    /\ exitCode = 0
    /\ effectiveDeleteFiles =>
         Removed = { f \in Actionable(tree0, faults, searchStartPath) :
                       <<"unlink", f>> \notin faults }

(* C14 witness: a finished run with delete and update enabled removed      *)
(* files, then tried to read the unreadable ignore file and appended       *)
(* nothing.                                                                *)
C14_Witness ==
  /\ pc = "done"
  /\ effectiveDeleteFiles
  /\ effectiveUpdateForceignore
  /\ IgnoreFileUnreadable
  /\ Removed # {}
  /\ allFilesIdentifiedForAction # <<>>
  /\ \E i \in 1..Len(log) : log[i] = <<"read">>
  /\ \A i \in 1..Len(log) : log[i] # <<"append">>
  /\ ignoreFile = ignore0

(* A finished run has a non-zero status exactly when the search root of    *)
(* its command line is not an existing directory, and then it has made no  *)
(* file-system call after the root test and changed nothing.               *)
ExitStatusTellsRoot ==
  pc = "done" =>
    /\ exitCode \in {0, 1}
    /\ exitCode # 0 <=> ~ValidRoot
    /\ exitCode # 0 =>
         /\ log = <<>>
         /\ targetFolders = <<>>
         /\ tree = tree0
         /\ ignoreFile = ignore0

(* C15: a finished run has a non-zero status exactly when its search root  *)
(* is not an existing directory, and then it has scanned, removed and      *)
(* written nothing; every run finishes, and a run whose search root is an  *)
(* existing directory finishes with status 0.                              *)
C15_ExitStatus ==
  /\ []ExitStatusTellsRoot
  /\ (pc = "parse") ~> (pc = "done")
  /\ (pc = "parse" /\ ValidRoot) ~> (pc = "done" /\ exitCode = 0)

(* The same of each of the two scripts of the file run as a file of its    *)
(* own: what C15 says holds of both.                                       *)
ExitStatusOfEachScript ==
  /\ [](variant # "whole" => ExitStatusTellsRoot)
  /\ (pc = "parse") ~> (pc = "done")
  /\ (pc = "parse" /\ variant # "whole" /\ ValidRoot) ~> (pc = "done" /\ exitCode = 0)

(* C17: in one run the scan is the first file-system call after the root   *)
(* test and happens once; the ignore file is read at most once and         *)
(* appended to at most once, the read before the append; every deletion    *)
(* comes before them, and with delete enabled every ACTIONABLE file has    *)
(* been attempted by then.                                                 *)
C17_Ordering ==
  LET writes  == CallsOf("read") \cup CallsOf("append")
      deletes == CallsOf("unlink") \cup CallsOf("process")
  IN  /\ log # <<>> => (log[1] = <<"scan">> /\ CallsOf("scan") = {1})
      /\ Cardinality(CallsOf("read")) <= 1
      /\ Cardinality(CallsOf("append")) <= 1
      /\ \A r \in CallsOf("read") : \A a \in CallsOf("append") : r < a
      /\ \A w \in writes : \A d \in deletes : d < w
      /\ (writes # {} /\ effectiveDeleteFiles) =>
           UnlinkAttempts = Actionable(tree0, faults, searchStartPath)
      /\ ignoreFile # ignore0 => CallsOf("append") # {}
      /\ tree # tree0 => deletes # {}

(* C17 witness: a finished run that scanned, unlinked files of two         *)
(* directories, then read the existing ignore file and appended to it.     *)
C17_Witness ==
  /\ pc = "done"
  /\ CallsOf("read") # {}
  /\ CallsOf("append") # {}
  /\ ignoreFile # ignore0
  /\ \E i, j \in CallsOf("unlink") :
       /\ ParentOf(log[i][2]) # ParentOf(log[j][2])
       /\ log[i][2] \in Removed
       /\ log[j][2] \in Removed

(* C18: a finished run with update enabled and a non-empty ACTIONABLE set   *)
(* has called updateForceignoreFile with its root and with a batch that    *)
(* holds every ACTIONABLE file once, whatever the delete setting and the   *)
(* outcome of each unlink; and every ACTIONABLE file is then an entry of   *)
(* the ignore file.                                                        *)
C18_BatchIsActionableSet ==
  LET actionable == Actionable(tree0, faults, searchStartPath)
  IN  (/\ pc = "done"
       /\ variant = "flags"
       /\ effectiveUpdateForceignore
       /\ actionable # {}) =>
        /\ calls = runs
        /\ lastRoot = searchStartPath
        /\ lastBatch = allFilesIdentifiedForAction
        /\ Range(lastBatch) = actionable
        /\ Len(lastBatch) = Cardinality(actionable)
        /\ IgnoreFileWorks =>
             { RelativePath(searchStartPath, f) : f \in actionable }
               \subseteq EntriesOf(ignoreFile[ForceignorePath(searchStartPath)])

(* C18 witness: a finished run with delete and update enabled whose batch  *)
(* holds a file it deleted and a file whose unlink failed, both now        *)
(* entries of the ignore file.                                             *)
C18_Witness ==
  /\ pc = "done"
  /\ effectiveDeleteFiles
  /\ effectiveUpdateForceignore
  /\ \E f, g \in Range(lastBatch) :
       /\ UnlinkFailed(f)
       /\ g \in Removed
       /\ {RelativePath(searchStartPath, f), RelativePath(searchStartPath, g)}
            \subseteq NewEntries

----------------------------------------------------------------------------
(* Properties of the command line, checked under SpecArgs.                 *)

(* The place of the last argument of the command line that is one of the   *)
(* given words, 0 when there is none.                                      *)
LastOf(words) ==
  LET at == { i \in 1..Len(cliArgs) : cliArgs[i] \in words }
  IN  IF at = {} THEN 0 ELSE CHOOSE i \in at : \A j \in at : j <= i

(* C16: after the argument loop the delete setting is on exactly when the  *)
(* last of --delete / --no-delete is --delete, the update setting is on    *)
(* exactly when the last of --update-forceignore / --no-update-forceignore *)
(* is --update-forceignore, the root is the directory named by the first   *)
(* argument that is not an option, or the current directory, and main goes *)
(* on to the root test whatever unknown options there are.                 *)
C16_FlagInterpretation ==
  pc # "parse" =>
    /\ effectiveDeleteFiles =
         (LastOf({ARG_DELETE, ARG_NO_DELETE}) # 0
            /\ cliArgs[LastOf({ARG_DELETE, ARG_NO_DELETE})] = ARG_DELETE)
    /\ effectiveUpdateForceignore =
         (LastOf({ARG_UPDATE, ARG_NO_UPDATE}) # 0
            /\ cliArgs[LastOf({ARG_UPDATE, ARG_NO_UPDATE})] = ARG_UPDATE)
    /\ searchStartPath = CommandRoot
    /\ (pc = "done" => (exitCode = 1 /\ ~ValidRoot))

(* C16 witness: the loop has read --delete, later --no-delete, and an      *)
(* unknown option, and main is at its root test with delete off.           *)
C16_Witness ==
  /\ pc = "root"
  /\ ~effectiveDeleteFiles
  /\ \E i, j, k \in 1..Len(cliArgs) :
       /\ i < j
       /\ cliArgs[i] = ARG_DELETE
       /\ cliArgs[j] = ARG_NO_DELETE
       /\ cliArgs[k] = ARG_UNKNOWN

============================================================================
